---- MODULE Spec2Model ----
(***************************************************************************)
(* The drag-and-drop demo of src/src/App.refactored.jsx: three ordered     *)
(* collections (index mode, generated ids, incremental ids) driven by the  *)
(* hook useDragAndDrop, and the action log of the hook useHistory.         *)
(*                                                                         *)
(* Array positions are JavaScript positions (0-based) in every request,    *)
(* result and message; a TLA+ sequence holds position i at s[i + 1].       *)
(* Strings interpolated into ids and messages are built with \o and        *)
(* ToString, as the template literals of the source build them.            *)
(*                                                                         *)
(* One step of the model is one event handler run to completion followed   *)
(* by the render React commits for the state it set, so a handler reads    *)
(* the items of the latest commit.                                         *)
(***************************************************************************)
EXTENDS Integers, Sequences, FiniteSets, TLC

VARIABLES
    wrongItems,      \* wrongVariant.items: sequence of values
    generatedItems,  \* generatedVariant.items: sequence of [id, value]
    correctItems,    \* correctVariant.items: sequence of [id, value]
    history,         \* useHistory's history: sequence of entries
    idCounter,       \* the module-level idCounter of idGenerators.js
    nanoIssued,      \* number of distinct strings generateNanoId has handed to items
    collisions       \* number of generateNanoId draws that repeated an earlier string

vars == <<wrongItems, generatedItems, correctItems, history, idCounter,
          nanoIssued, collisions>>

-----------------------------------------------------------------------------
(* Program constants                                                       *)

INITIAL_ITEMS == <<"Polozka A", "Polozka B", "Polozka C", "Polozka D">>

HISTORY_DISPLAY_LIMIT == 5

WRONG == "wrong"
GENERATED == "generated"
CORRECT == "correct"

\* The value JavaScript yields for a missing array element, as a template
\* literal prints it.
Undefined == "undefined"

-----------------------------------------------------------------------------
(* Bounds of the model                                                     *)

\* Renders after the first that a run may commit, per specification (every
\* handler that sets state commits one, the reset two).
MaxRendersIndex == 2

MaxRendersIdentity == 2

MaxRendersHistory == 7

MaxRendersReset == 4

MaxRendersBatch == 2

\* Draws of generateNanoId that may repeat a string drawn earlier.
MaxCollisions == 1

-----------------------------------------------------------------------------
(* JavaScript array primitives                                             *)

Min(a, b) == IF a < b THEN a ELSE b
Max(a, b) == IF a > b THEN a ELSE b

\* array[i]
At(array, i) == IF i >= 0 /\ i < Len(array) THEN array[i + 1] ELSE Undefined

\* The start position Array.prototype.splice and slice use for an argument.
RelativeStart(len, start) ==
    IF start < 0 THEN Max(len + start, 0) ELSE Min(start, len)

\* array without the element at position k, 0 <= k < Len(array)
RemoveAt(array, k) ==
    [i \in 1..(Len(array) - 1) |-> IF i <= k THEN array[i] ELSE array[i + 1]]

\* array with x inserted so that it sits at position k, 0 <= k <= Len(array)
InsertAt(array, k, x) ==
    [i \in 1..(Len(array) + 1) |->
        IF i <= k THEN array[i] ELSE IF i = k + 1 THEN x ELSE array[i - 1]]

\* array.filter((_, index) => index !== k)
FilterOutIndex(array, k) ==
    IF k >= 0 /\ k < Len(array) THEN RemoveAt(array, k) ELSE array

\* array.slice(start) for a possibly negative start
SliceFrom(array, start) ==
    LET k == RelativeStart(Len(array), start)
    IN  [i \in 1..(Len(array) - k) |-> array[k + i]]

\* array.reverse()
Reverse(array) == [i \in 1..Len(array) |-> array[Len(array) + 1 - i]]

Range(array) == {array[i] : i \in 1..Len(array)}

\* A variant of arrayMove that exchanges the two elements.
ArrayMoveSwap(array, from, to) ==
    [i \in 1..Len(array) |->
        IF i = from + 1 THEN At(array, to)
        ELSE IF i = to + 1 THEN At(array, from) ELSE array[i]]

\* A variant of arrayMove that counts the target position after the removal.
ArrayMoveShifted(array, from, to) ==
    LET len     == Len(array)
        k       == RelativeStart(len, from)
        removed == IF k < len THEN array[k + 1] ELSE Undefined
        rest    == IF k < len THEN RemoveAt(array, k) ELSE array
        start   == IF from < to THEN to - 1 ELSE to
    IN  InsertAt(rest, RelativeStart(Len(rest), start), removed)

\* A variant of arrayMove that writes the element over the one at the target.
ArrayMoveCopy(array, from, to) ==
    [i \in 1..Len(array) |-> IF i = to + 1 THEN At(array, from) ELSE array[i]]

(* arrayMove of @dnd-kit/sortable:                                         *)
(*   const newArray = array.slice();                                       *)
(*   newArray.splice(to < 0 ? newArray.length + to : to, 0,                *)
(*                   newArray.splice(from, 1)[0]);                         *)
(* The start argument is evaluated before the inner splice removes the     *)
(* element; an inner splice past the end removes nothing and yields        *)
(* undefined, which the outer splice then inserts.                         *)
ArrayMove(array, from, to) ==
    LET len     == Len(array)
        start   == IF to < 0 THEN len + to ELSE to
        k       == RelativeStart(len, from)
        removed == IF k < len THEN array[k + 1] ELSE Undefined
        rest    == IF k < len THEN RemoveAt(array, k) ELSE array
    IN  InsertAt(rest, RelativeStart(Len(rest), start), removed)

-----------------------------------------------------------------------------
(* Identity generators                                                     *)

\* `item-${n}`
IncrementalId(n) == "item-" \o ToString(n)

\* The n-th distinct string generateNanoId produced.
NanoId(n) == "nano-" \o ToString(n)

(* generateNanoId draws 8 characters at random: the string it returns is   *)
(* one not returned before, or any of those returned before.  A draw is    *)
(* [id, issued, collisions]: the string and the two counts after it.       *)
GenerateNanoId(issued, coll) ==
    {[id |-> NanoId(issued + 1), issued |-> issued + 1, collisions |-> coll]}
    \cup
    {[id |-> NanoId(j), issued |-> issued, collisions |-> coll + 1] :
        j \in IF coll < MaxCollisions THEN 1..issued ELSE {}}

\* createItemWithId(value, 'incremental') with idCounter = counter
CreateItemIncremental(value, counter) ==
    [id |-> IncrementalId(counter + 1), value |-> value]

\* addIdsToValues(values, 'incremental') with idCounter = counter
AddIdsIncremental(values, counter) ==
    [i \in 1..Len(values) |-> CreateItemIncremental(values[i], counter + i - 1)]

\* addIdsToValues(values): the outcomes [items, issued, collisions] of mapping
\* createItemWithId(value) over values, left to right.
RECURSIVE AddIdsNano(_, _, _)
AddIdsNano(values, issued, coll) ==
    IF values = <<>>
    THEN {[items |-> <<>>, issued |-> issued, collisions |-> coll]}
    ELSE UNION {
            {[items      |-> <<[id |-> d.id, value |-> Head(values)]>> \o r.items,
              issued     |-> r.issued,
              collisions |-> r.collisions] :
                r \in AddIdsNano(Tail(values), d.issued, d.collisions)} :
            d \in GenerateNanoId(issued, coll)}

-----------------------------------------------------------------------------
(* useDragAndDrop                                                          *)

\* A variant of the lookup, items.indexOf(id): no item is a string, so no item
\* is strictly equal to an id.
FindIndexByIndexOf(items, id) == -1

\* (items, id) => items.findIndex(item => item.id === id)
FindIndexById(items, id) ==
    LET hits == {i \in 1..Len(items) : items[i].id = id}
    IN  IF hits = {} THEN -1 ELSE (CHOOSE i \in hits : \A j \in hits : i <= j) - 1

\* The position a reference resolves to: findIndexById when the hook has one,
\* the reference itself in index mode.
Resolve(items, byId, ref) == IF byId THEN FindIndexById(items, ref) ELSE ref

\* handleDragEnd returns null
Null == [ok |-> FALSE, oldIndex |-> -1, newIndex |-> -1]

\* A variant of the early return that tests only for the missing over target.
DragEndSkipsNoOver(activeId, hasOver, overId) == ~hasOver

\* handleDragEnd's early return: no over target, or active and over equal
DragEndSkips(activeId, hasOver, overId) == ~hasOver \/ activeId = overId

\* A variant of handleDragEnd without the test for -1, as the handlers of
\* App.jsx resolve and move.
DragEndResultUnchecked(items, byId, activeId, hasOver, overId) ==
    IF DragEndSkips(activeId, hasOver, overId)
    THEN Null
    ELSE [ok       |-> TRUE,
          oldIndex |-> Resolve(items, byId, activeId),
          newIndex |-> Resolve(items, byId, overId)]

\* handleDragEnd's return value (activeId and overId are the event's own)
DragEndResult(items, byId, activeId, hasOver, overId) ==
    IF DragEndSkips(activeId, hasOver, overId)
    THEN Null
    ELSE LET oldIndex == Resolve(items, byId, activeId)
             newIndex == Resolve(items, byId, overId)
         IN  IF oldIndex = -1 \/ newIndex = -1
             THEN Null
             ELSE [ok |-> TRUE, oldIndex |-> oldIndex, newIndex |-> newIndex]

\* the items handleDragEnd leaves in the hook's state
DragEndItems(items, byId, activeId, hasOver, overId) ==
    LET r == DragEndResult(items, byId, activeId, hasOver, overId)
    IN  IF r.ok THEN ArrayMove(items, r.oldIndex, r.newIndex) ELSE items

\* deleteItem in identity mode: prevItems.filter(item => item.id !== id)
DeleteById(items, id) == SelectSeq(items, LAMBDA item : item.id # id)

\* deleteItem in index mode: prevItems.filter((_, index) => index !== k)
DeleteByIndex(items, k) == FilterOutIndex(items, k)

\* A variant of addItem that puts the item first: [item, ...prevItems]
AddItemFirst(items, item) == <<item>> \o items

\* addItem: [...prevItems, item]
AddItem(items, item) == Append(items, item)

-----------------------------------------------------------------------------
(* useHistory and the messages                                             *)

\* MESSAGES.DELETE_ITEM(value, type): the type argument is not printed
DELETE_ITEM(value) == [tmpl |-> "DELETE_ITEM", args |-> <<value>>]

\* MESSAGES.MOVE_ITEM(from, to)
MOVE_ITEM(from, to) ==
    [tmpl |-> "MOVE_ITEM", args |-> <<ToString(from), ToString(to)>>]

\* MESSAGES.ADD_ITEM(value)
ADD_ITEM(value) == [tmpl |-> "ADD_ITEM", args |-> <<value>>]

\* `Presunuto polozku s ID ${result.activeId} na pozici ${result.newIndex}`
MOVE_ID(activeId, newIndex) ==
    [tmpl |-> "MOVE_ID", args |-> <<activeId, ToString(newIndex)>>]

\* A variant of addHistoryEntry that leaves the flag out of the entry, so
\* that it reads as false.
AddHistoryEntryUnflagged(h, type, message, isWarning) ==
    Append(h, [ref     |-> Len(h) + 1,
               type    |-> type,
               message |-> message,
               warning |-> FALSE])

(* addHistoryEntry: [...prevHistory, entry].  An entry is a new object;    *)
(* ref is its identity, its rank among the objects appended since the log  *)
(* was last empty.  The timestamp, wall-clock text no handler reads back,  *)
(* is left out.                                                            *)
AddHistoryEntry(h, type, message, isWarning) ==
    Append(h, [ref     |-> Len(h) + 1,
               type    |-> type,
               message |-> message,
               warning |-> isWarning])

\* A variant of getRecentHistory that reverses the history array itself:
\* history.reverse().slice(0, HISTORY_DISPLAY_LIMIT)
GetRecentHistoryInPlace(h) ==
    [view |-> SubSeq(Reverse(h), 1, Min(Len(h), HISTORY_DISPLAY_LIMIT)),
     log  |-> Reverse(h)]

\* A variant of getRecentHistory that slices from the front:
\* history.slice(0, HISTORY_DISPLAY_LIMIT).reverse()
GetRecentHistoryOldest(h) ==
    [view |-> Reverse(SubSeq(h, 1, Min(Len(h), HISTORY_DISPLAY_LIMIT))), log |-> h]

(* getRecentHistory: history.slice(-HISTORY_DISPLAY_LIMIT).reverse().      *)
(* view is what it returns, log the history array as the call leaves it    *)
(* (slice copies, so reverse works on the copy).                           *)
GetRecentHistory(h) ==
    [view |-> Reverse(SliceFrom(h, -HISTORY_DISPLAY_LIMIT)), log |-> h]

\* useHistory's body runs getRecentHistory() on every render.
RenderHistory(h) == GetRecentHistory(h).log

\* the recentHistory the hook hands to the component
recentHistory == GetRecentHistory(history).view

-----------------------------------------------------------------------------
(* The state after the first render                                        *)

Init ==
    /\ wrongItems = INITIAL_ITEMS
    /\ \E g \in AddIdsNano(INITIAL_ITEMS, 0, 0) :
          /\ generatedItems = g.items
          /\ nanoIssued = g.issued
          /\ collisions = g.collisions
    /\ correctItems = AddIdsIncremental(INITIAL_ITEMS, 0)
    /\ idCounter = Len(INITIAL_ITEMS)
    /\ history = <<>>

\* A render evaluates addIdsToValues(INITIAL_ITEMS, 'incremental') again as the
\* argument of useDragAndDrop: the counter advances, the items are dropped.
Render(counter) == counter + Len(INITIAL_ITEMS)

-----------------------------------------------------------------------------
(* The handlers of App.refactored.jsx                                      *)

\* handleWrongDragEnd(event), event = {active: {id}, over: hasOver ? {id} : null}
HandleWrongDragEnd(activeId, hasOver, overId) ==
    LET r == DragEndResult(wrongItems, FALSE, activeId, hasOver, overId)
    IN  /\ wrongItems' = DragEndItems(wrongItems, FALSE, activeId, hasOver, overId)
        /\ IF r.ok
           THEN /\ history' = RenderHistory(AddHistoryEntry(history, WRONG,
                                MOVE_ITEM(r.oldIndex, r.newIndex), FALSE))
                /\ idCounter' = Render(idCounter)
           ELSE UNCHANGED <<history, idCounter>>
        /\ UNCHANGED <<generatedItems, correctItems, nanoIssued, collisions>>

\* handleWrongDelete(index)
HandleWrongDelete(index) ==
    LET deletedItem == At(wrongItems, index)
    IN  /\ wrongItems' = DeleteByIndex(wrongItems, index)
        /\ history' = RenderHistory(AddHistoryEntry(history, WRONG,
                          DELETE_ITEM(deletedItem), TRUE))
        /\ idCounter' = Render(idCounter)
        /\ UNCHANGED <<generatedItems, correctItems, nanoIssued, collisions>>

\* handleGeneratedDragEnd(event)
HandleGeneratedDragEnd(activeId, hasOver, overId) ==
    LET r == DragEndResult(generatedItems, TRUE, activeId, hasOver, overId)
    IN  /\ generatedItems' =
               DragEndItems(generatedItems, TRUE, activeId, hasOver, overId)
        /\ IF r.ok
           THEN /\ history' = RenderHistory(AddHistoryEntry(history, GENERATED,
                                MOVE_ID(activeId, r.newIndex), FALSE))
                /\ idCounter' = Render(idCounter)
           ELSE UNCHANGED <<history, idCounter>>
        /\ UNCHANGED <<wrongItems, correctItems, nanoIssued, collisions>>

\* handleGeneratedDelete(id)
HandleGeneratedDelete(id) ==
    LET found == FindIndexById(generatedItems, id)
    IN  /\ IF found # -1
           THEN /\ generatedItems' = DeleteById(generatedItems, id)
                /\ history' = RenderHistory(AddHistoryEntry(history, GENERATED,
                                DELETE_ITEM(generatedItems[found + 1].value), FALSE))
                /\ idCounter' = Render(idCounter)
           ELSE UNCHANGED <<generatedItems, history, idCounter>>
        /\ UNCHANGED <<wrongItems, correctItems, nanoIssued, collisions>>

\* handleAddGeneratedItem()
HandleAddGeneratedItem ==
    LET newValue == "Nova polozka " \o ToString(Len(generatedItems) + 1)
    IN  \E d \in GenerateNanoId(nanoIssued, collisions) :
            /\ generatedItems' =
                   AddItem(generatedItems, [id |-> d.id, value |-> newValue])
            /\ nanoIssued' = d.issued
            /\ collisions' = d.collisions
            /\ history' = RenderHistory(AddHistoryEntry(history, GENERATED,
                              ADD_ITEM(newValue), FALSE))
            /\ idCounter' = Render(idCounter)
            /\ UNCHANGED <<wrongItems, correctItems>>

\* handleCorrectDragEnd(event)
HandleCorrectDragEnd(activeId, hasOver, overId) ==
    LET r == DragEndResult(correctItems, TRUE, activeId, hasOver, overId)
    IN  /\ correctItems' = DragEndItems(correctItems, TRUE, activeId, hasOver, overId)
        /\ IF r.ok
           THEN /\ history' = RenderHistory(AddHistoryEntry(history, CORRECT,
                                MOVE_ID(activeId, r.newIndex), FALSE))
                /\ idCounter' = Render(idCounter)
           ELSE UNCHANGED <<history, idCounter>>
        /\ UNCHANGED <<wrongItems, generatedItems, nanoIssued, collisions>>

\* A variant of handleCorrectDelete for two variants that share one array: the
\* filter of the correct collection takes the same position out of the
\* generated one.
HandleCorrectDeleteShared(id) ==
    LET found == FindIndexById(correctItems, id)
    IN  /\ IF found # -1
           THEN /\ correctItems' = DeleteById(correctItems, id)
                /\ generatedItems' = DeleteByIndex(generatedItems, found)
                /\ history' = RenderHistory(AddHistoryEntry(history, CORRECT,
                                DELETE_ITEM(correctItems[found + 1].value), FALSE))
                /\ idCounter' = Render(idCounter)
           ELSE UNCHANGED <<correctItems, generatedItems, history, idCounter>>
        /\ UNCHANGED <<wrongItems, nanoIssued, collisions>>

\* handleCorrectDelete(id)
HandleCorrectDelete(id) ==
    LET found == FindIndexById(correctItems, id)
    IN  /\ IF found # -1
           THEN /\ correctItems' = DeleteById(correctItems, id)
                /\ history' = RenderHistory(AddHistoryEntry(history, CORRECT,
                                DELETE_ITEM(correctItems[found + 1].value), FALSE))
                /\ idCounter' = Render(idCounter)
           ELSE UNCHANGED <<correctItems, history, idCounter>>
        /\ UNCHANGED <<wrongItems, generatedItems, nanoIssued, collisions>>

\* clearHistory: setHistory([])
ClearHistory(h) == <<>>

\* handleReset(): resetItems, two setItems with newly built seeds, clearHistory
HandleReset ==
    \E g \in AddIdsNano(INITIAL_ITEMS, nanoIssued, collisions) :
        /\ wrongItems' = INITIAL_ITEMS
        /\ generatedItems' = g.items
        /\ nanoIssued' = g.issued
        /\ collisions' = g.collisions
        /\ correctItems' = AddIdsIncremental(INITIAL_ITEMS, idCounter)
        /\ idCounter' = Render(idCounter + Len(INITIAL_ITEMS))
        /\ history' = RenderHistory(ClearHistory(history))

-----------------------------------------------------------------------------
(* The requests the gesture layer may send                                 *)

\* Positions an index-mode request may carry: those of the seed.
Positions == 0..(Len(INITIAL_ITEMS) - 1)

\* Ids a request to the generated collection may carry: every id handed out.
GeneratedRefs == {NanoId(j) : j \in 1..nanoIssued}

\* Ids a request to the correct collection may carry: those of its items and
\* those of the first seed.
CorrectRefs ==
    {correctItems[i].id : i \in 1..Len(correctItems)}
    \cup {IncrementalId(n) : n \in 1..Len(INITIAL_ITEMS)}

\* At most k renders have followed the first.
Rendered(k) == idCounter <= Len(INITIAL_ITEMS) * (k + 1)

WrongDragEnd ==
    \E a \in Positions, o \in Positions, hasOver \in BOOLEAN :
        /\ hasOver \/ o = 0
        /\ HandleWrongDragEnd(a, hasOver, o)

WrongDelete == \E index \in Positions : HandleWrongDelete(index)

GeneratedDragEnd ==
    \E a \in GeneratedRefs, o \in GeneratedRefs, hasOver \in BOOLEAN :
        /\ hasOver \/ o = a
        /\ HandleGeneratedDragEnd(a, hasOver, o)

GeneratedDelete == \E id \in GeneratedRefs : HandleGeneratedDelete(id)

CorrectDragEnd ==
    \E a \in CorrectRefs, o \in CorrectRefs, hasOver \in BOOLEAN :
        /\ hasOver \/ o = a
        /\ HandleCorrectDragEnd(a, hasOver, o)

CorrectDelete == \E id \in CorrectRefs : HandleCorrectDelete(id)

\* Index mode: requests to the wrong collection, and the reset.
NextIndex ==
    \/ WrongDragEnd /\ Rendered(MaxRendersIndex)'
    \/ WrongDelete /\ Rendered(MaxRendersIndex)'
    \/ HandleReset /\ Rendered(MaxRendersIndex)'

SpecIndex == Init /\ [][NextIndex]_vars

\* Identity mode: requests to the generated collection, the one that takes
\* moves, deletes and inserts.
NextIdentity ==
    \/ GeneratedDragEnd /\ Rendered(MaxRendersIdentity)'
    \/ GeneratedDelete /\ Rendered(MaxRendersIdentity)'
    \/ HandleAddGeneratedItem /\ Rendered(MaxRendersIdentity)'

SpecIdentity == Init /\ [][NextIdentity]_vars

\* The log under a long run of requests: one move and one delete in the wrong
\* collection, and the reset.
NextHistory ==
    \/ HandleWrongDragEnd(0, TRUE, 1) /\ Rendered(MaxRendersHistory)'
    \/ HandleWrongDelete(0) /\ Rendered(MaxRendersHistory)'
    \/ HandleReset /\ Rendered(MaxRendersHistory)'

SpecHistory == Init /\ [][NextHistory]_vars

\* The reset after requests to every collection: a delete in the wrong one,
\* an insert and the delete of the head in the generated one, a move of the
\* head onto its neighbour and the delete of the head in the correct one.
NextReset ==
    \/ HandleWrongDelete(0) /\ Rendered(MaxRendersReset)'
    \/ HandleAddGeneratedItem /\ Rendered(MaxRendersReset)'
    \/ /\ Len(generatedItems) > 0
       /\ HandleGeneratedDelete(generatedItems[1].id)
       /\ Rendered(MaxRendersReset)'
    \/ /\ Len(correctItems) > 1
       /\ HandleCorrectDragEnd(correctItems[1].id, TRUE, correctItems[2].id)
       /\ Rendered(MaxRendersReset)'
    \/ /\ Len(correctItems) > 0
       /\ HandleCorrectDelete(correctItems[1].id)
       /\ Rendered(MaxRendersReset)'
    \/ HandleReset /\ Rendered(MaxRendersReset)'

SpecReset == Init /\ [][NextReset]_vars

-----------------------------------------------------------------------------
(* Two requests handled in one batch                                       *)

(* React applies the updates queued for a state in the order of the        *)
(* setItems calls, at the next render.  An update is a value (setItems of  *)
(* handleDragEnd, computed from the items the handler captured at the last *)
(* render) or a function of the previous state (deleteItem, addItem).      *)
ValueUpdate(newItems) == [kind |-> "value", arg |-> newItems]
FilterIdUpdate(id) == [kind |-> "filterId", arg |-> id]
AppendUpdate(item) == [kind |-> "append", arg |-> item]

ApplyUpdate(prevItems, update) ==
    CASE update.kind = "value" -> update.arg
      [] update.kind = "filterId" -> DeleteById(prevItems, update.arg)
      [] update.kind = "append" -> AddItem(prevItems, update.arg)

RECURSIVE ApplyQueue(_, _)
ApplyQueue(prevItems, queue) ==
    IF queue = <<>>
    THEN prevItems
    ELSE ApplyQueue(ApplyUpdate(prevItems, Head(queue)), Tail(queue))

\* what handleDragEnd queues in identity mode, called with the captured items
DragEndUpdates(items, activeId, hasOver, overId) ==
    LET r == DragEndResult(items, TRUE, activeId, hasOver, overId)
    IN  IF r.ok
        THEN <<ValueUpdate(ArrayMove(items, r.oldIndex, r.newIndex))>>
        ELSE <<>>

\* the log after handleGeneratedDragEnd has run on it
DragEndHistory(h, items, activeId, hasOver, overId) ==
    LET r == DragEndResult(items, TRUE, activeId, hasOver, overId)
    IN  IF r.ok
        THEN AddHistoryEntry(h, GENERATED, MOVE_ID(activeId, r.newIndex), FALSE)
        ELSE h

\* handleGeneratedDelete(id) and then handleGeneratedDragEnd(event), both
\* before the render that follows
HandleGeneratedDeleteThenDragEnd(id, activeId, hasOver, overId) ==
    LET items == generatedItems
        found == FindIndexById(items, id)
        queue == (IF found # -1 THEN <<FilterIdUpdate(id)>> ELSE <<>>)
                 \o DragEndUpdates(items, activeId, hasOver, overId)
        deleted == IF found # -1
                   THEN AddHistoryEntry(history, GENERATED,
                            DELETE_ITEM(items[found + 1].value), FALSE)
                   ELSE history
    IN  /\ generatedItems' = ApplyQueue(items, queue)
        /\ IF queue # <<>>
           THEN /\ history' = RenderHistory(
                       DragEndHistory(deleted, items, activeId, hasOver, overId))
                /\ idCounter' = Render(idCounter)
           ELSE UNCHANGED <<history, idCounter>>
        /\ UNCHANGED <<wrongItems, correctItems, nanoIssued, collisions>>

\* handleAddGeneratedItem() and then handleGeneratedDragEnd(event), both
\* before the render that follows
HandleAddGeneratedItemThenDragEnd(activeId, hasOver, overId) ==
    LET items == generatedItems
        newValue == "Nova polozka " \o ToString(Len(items) + 1)
        added == AddHistoryEntry(history, GENERATED, ADD_ITEM(newValue), FALSE)
    IN  \E d \in GenerateNanoId(nanoIssued, collisions) :
            /\ generatedItems' =
                   ApplyQueue(items,
                       <<AppendUpdate([id |-> d.id, value |-> newValue])>>
                       \o DragEndUpdates(items, activeId, hasOver, overId))
            /\ nanoIssued' = d.issued
            /\ collisions' = d.collisions
            /\ history' = RenderHistory(
                   DragEndHistory(added, items, activeId, hasOver, overId))
            /\ idCounter' = Render(idCounter)
            /\ UNCHANGED <<wrongItems, correctItems>>

GeneratedDeleteThenDragEnd ==
    \E id \in GeneratedRefs, a \in GeneratedRefs, o \in GeneratedRefs :
        HandleGeneratedDeleteThenDragEnd(id, a, TRUE, o)

AddGeneratedItemThenDragEnd ==
    \E a \in GeneratedRefs, o \in GeneratedRefs :
        HandleAddGeneratedItemThenDragEnd(a, TRUE, o)

\* The generated collection with renders that may come after one request or
\* after two.
NextBatch ==
    \/ GeneratedDragEnd /\ Rendered(MaxRendersBatch)'
    \/ GeneratedDelete /\ Rendered(MaxRendersBatch)'
    \/ HandleAddGeneratedItem /\ Rendered(MaxRendersBatch)'
    \/ GeneratedDeleteThenDragEnd /\ Rendered(MaxRendersBatch)'
    \/ AddGeneratedItemThenDragEnd /\ Rendered(MaxRendersBatch)'

SpecBatch == Init /\ [][NextBatch]_vars

-----------------------------------------------------------------------------
(* Vocabulary of the properties                                            *)

A == INITIAL_ITEMS[1]
B == INITIAL_ITEMS[2]
C == INITIAL_ITEMS[3]
D == INITIAL_ITEMS[4]

Values(items) == [i \in 1..Len(items) |-> items[i].value]

Present(items, id) == \E i \in 1..Len(items) : items[i].id = id

\* the id of the item of this value
IdOf(items, value) ==
    items[CHOOSE i \in 1..Len(items) :
            items[i].value = value /\ \A j \in 1..(i - 1) : items[j].value # value].id

\* the place (from 1) of the first item of this id
FirstAt(items, id) ==
    CHOOSE i \in 1..Len(items) :
        items[i].id = id /\ \A j \in 1..(i - 1) : items[j].id # id

IdAt(items, k) ==
    IF k >= 0 /\ k < Len(items) THEN items[k + 1].id ELSE Undefined

Without(items, i) == SubSeq(items, 1, i - 1) \o SubSeq(items, i + 1, Len(items))

Count(items, x) == Cardinality({i \in 1..Len(items) : items[i] = x})

IsPermutation(items, items2) ==
    /\ Len(items) = Len(items2)
    /\ \A x \in Range(items) \cup Range(items2) : Count(items, x) = Count(items2, x)

UniqueIds(items) ==
    \A i, j \in 1..Len(items) : i # j => items[i].id # items[j].id

Entry(ref, type, tmpl, args, warning) ==
    [ref |-> ref, type |-> type, message |-> [tmpl |-> tmpl, args |-> args],
     warning |-> warning]

-----------------------------------------------------------------------------
(* Index mode                                                              *)

\* C1: from the seed, deleting position 1 leaves [A, C, D]; the request
\* {activeRef: 2, overRef: 0} that follows is accepted (a move entry is logged,
\* nothing is flagged) and moves D, not the C that position 2 denoted in the
\* seed: the collection becomes [D, A, C].
C1_StaleIndexMovesOther ==
    [][/\ (wrongItems = INITIAL_ITEMS /\ history = <<>> /\ HandleWrongDelete(1))
            => /\ wrongItems' = <<A, C, D>>
               /\ history' = <<Entry(1, WRONG, "DELETE_ITEM", <<B>>, TRUE)>>
       /\ (/\ wrongItems = <<A, C, D>>
           /\ history = <<Entry(1, WRONG, "DELETE_ITEM", <<B>>, TRUE)>>
           /\ HandleWrongDragEnd(2, TRUE, 0))
            => /\ wrongItems' = <<D, A, C>>
               /\ wrongItems'[1] # INITIAL_ITEMS[2 + 1]
               /\ history' = Append(history,
                      Entry(2, WRONG, "MOVE_ITEM", <<"2", "0">>, FALSE))]_vars

C1_Witness ==
    /\ wrongItems = <<D, A, C>>
    /\ history = <<Entry(1, WRONG, "DELETE_ITEM", <<B>>, TRUE),
                   Entry(2, WRONG, "MOVE_ITEM", <<"2", "0">>, FALSE)>>

-----------------------------------------------------------------------------
(* Identity mode                                                           *)

\* every id of an item resolves to a position that holds an item of that id
ResolvesAll(items) ==
    \A i \in 1..Len(items) :
        IdAt(items, FindIndexById(items, items[i].id)) = items[i].id

\* items2 is items with one item of this id taken out and put back somewhere
MovesOnly(items, items2, id) ==
    \E i \in 1..Len(items), j \in 1..Len(items2) :
        /\ items[i].id = id
        /\ items2[j] = items[i]
        /\ Without(items, i) = Without(items2, j)

\* a request the hook accepts: two different ids, both in the collection
Accepted(items, a, o) == a # o /\ Present(items, a) /\ Present(items, o)

\* the generated collection as handleGeneratedDragEnd leaves it for the
\* request {active: {id: a}, over: {id: o}}
AfterDragEnd(a, o) == DragEndItems(generatedItems, TRUE, a, TRUE, o)

C3_ActiveLandsOnOver ==
    \A a \in GeneratedRefs, o \in GeneratedRefs :
        Accepted(generatedItems, a, o)
            => AfterDragEnd(a, o)[FirstAt(generatedItems, o)]
                 = generatedItems[FirstAt(generatedItems, a)]

\* the first item of the seed has been moved two places down
C3_Witness ==
    /\ Len(history) = 1
    /\ history[1].message.tmpl = "MOVE_ID"
    /\ history[1].message.args[2] = "2"
    /\ Values(generatedItems) = <<B, C, A, D>>

\* C4: a reorder request, after any moves, inserts and deletes, changes only
\* positions: the collection after it is a permutation of the one before it
\* (same items, ids and values, none added, none lost, none doubled).
C4_MoveIsPermutation ==
    \A a \in GeneratedRefs, o \in GeneratedRefs :
        IsPermutation(generatedItems, AfterDragEnd(a, o))

\* a move logged after an insert, in a collection of five
C4_Witness ==
    /\ Len(history) = 2
    /\ history[1].message.tmpl = "ADD_ITEM"
    /\ history[2].message.tmpl = "MOVE_ID"
    /\ Len(generatedItems) = 5
    /\ generatedItems[5].value # "Nova polozka 5"

\* C5: in every reachable state, no two items of the generated collection and
\* no two items of the correct collection share an id.
C5_UniqueIds == UniqueIds(generatedItems) /\ UniqueIds(correctItems)

\* C6: from the seed [A, B, C, D] and an empty log, deleting B from the
\* generated collection gives [A, C, D] and a log of one entry, the delete of
\* B; moving D onto A then gives [D, A, C] and a log of two entries, the
\* delete and, most recent, the move of D.
C6_IdentityScenario ==
    [][/\ (/\ Values(generatedItems) = INITIAL_ITEMS
           /\ history = <<>>
           /\ HandleGeneratedDelete(IdOf(generatedItems, B)))
            => /\ Values(generatedItems') = <<A, C, D>>
               /\ history' = <<Entry(1, GENERATED, "DELETE_ITEM", <<B>>, FALSE)>>
       /\ (/\ Values(generatedItems) = <<A, C, D>>
           /\ history = <<Entry(1, GENERATED, "DELETE_ITEM", <<B>>, FALSE)>>
           /\ HandleGeneratedDragEnd(IdOf(generatedItems, D), TRUE,
                                     IdOf(generatedItems, A)))
            => /\ Values(generatedItems') = <<D, A, C>>
               /\ Len(history') = 2
               /\ history'[1] = history[1]
               /\ history'[2].message.tmpl = "MOVE_ID"
               /\ history'[2].message.args[1] = IdOf(generatedItems, D)]_vars

-----------------------------------------------------------------------------
(* The log                                                                 *)

\* C7: the stored log never holds more entries than the window of
\* HISTORY_DISPLAY_LIMIT, the one capacity the program names.
C7_BoundedLog == Len(history) <= HISTORY_DISPLAY_LIMIT

\* C8: recentHistory holds min(HISTORY_DISPLAY_LIMIT, n) entries of the n
\* stored, the most recently recorded ones, most recent first, and computing
\* it leaves the stored log as it was: chronological, every entry in place.
C8_RecentView ==
    /\ Len(recentHistory) = Min(HISTORY_DISPLAY_LIMIT, Len(history))
    /\ \A i \in 1..Len(recentHistory) :
          recentHistory[i] = history[Len(history) + 1 - i]
    /\ GetRecentHistory(history).log = history
    /\ \A i \in 1..Len(history) : history[i].ref = i

\* a full window over a longer log
C8_Witness ==
    /\ Len(history) = HISTORY_DISPLAY_LIMIT + 2
    /\ Len(recentHistory) = HISTORY_DISPLAY_LIMIT
    /\ recentHistory[1].ref = HISTORY_DISPLAY_LIMIT + 2

\* C9: once HISTORY_DISPLAY_LIMIT + 1 entries have been recorded since the log
\* was last empty, the first of them is in no recent view, however many more
\* are recorded.
C9_OldestLeavesView ==
    Len(history) >= HISTORY_DISPLAY_LIMIT + 1
        => /\ history[1] \notin Range(recentHistory)
           /\ \A i \in 1..Len(recentHistory) : recentHistory[i].ref # 1

\* one record past the window, and the first entry still stored
C9_Witness ==
    /\ Len(history) = HISTORY_DISPLAY_LIMIT + 1
    /\ history[1].ref = 1
    /\ recentHistory[HISTORY_DISPLAY_LIMIT].ref = 2

-----------------------------------------------------------------------------
(* Reset                                                                   *)

\* C10: a reset, after any requests, leaves the three collections with the
\* seed values in the seed order, the items of the generated and the correct
\* collection with ids that no item was given before, and the log empty.
C10_ResetRestores ==
    [][HandleReset =>
        /\ wrongItems' = INITIAL_ITEMS
        /\ Values(generatedItems') = INITIAL_ITEMS
        /\ Values(correctItems') = INITIAL_ITEMS
        /\ history' = <<>>
        /\ \A i \in 1..Len(correctItems') :
              correctItems'[i].id \notin {IncrementalId(n) : n \in 1..idCounter}
        /\ \A i \in 1..Len(generatedItems') :
              generatedItems'[i].id \notin GeneratedRefs]_vars

-----------------------------------------------------------------------------
(* Rejected and ignored requests                                           *)

\* a position outside [0, length)
OutOfRange(items, k) == k < 0 \/ k >= Len(items)

\* C11: a reorder request to the index-mode collection that carries a position
\* outside [0, length) leaves the collection as it was and is not logged as a
\* move.
C11_OutOfRangeMoveRejected ==
    [][\A a \in Positions, o \in Positions :
          (/\ OutOfRange(wrongItems, a) \/ OutOfRange(wrongItems, o)
           /\ HandleWrongDragEnd(a, TRUE, o))
            => /\ wrongItems' = wrongItems
               /\ history' = history]_vars

\* C12: in identity mode, a reorder request that names an id no item carries
\* (an item deleted earlier) is aborted: handleDragEnd returns null and the
\* collection stays as it was.
C12_StaleRefAborts ==
    \A a \in GeneratedRefs, o \in GeneratedRefs :
        (~Present(generatedItems, a) \/ ~Present(generatedItems, o))
            => /\ DragEndResult(generatedItems, TRUE, a, TRUE, o) = Null
               /\ AfterDragEnd(a, o) = generatedItems

\* an id was handed out, its item has been deleted, and items remain to move
C12_Witness ==
    /\ \E a \in GeneratedRefs : ~Present(generatedItems, a)
    /\ Len(generatedItems) >= 2
    /\ Len(history) >= 1
    /\ history[1].message.tmpl = "DELETE_ITEM"

\* the entry a handler appended in this step is flagged as a warning
WarningLogged ==
    /\ Len(history') = Len(history) + 1
    /\ history'[Len(history')].warning

\* C13: a request rejected with a recoverable error leaves the collection as
\* it was and appends a warning-flagged entry to the log; here the reorder
\* request and the delete request that name an id no item of the generated
\* collection carries.
C13_RejectedRequestLogsWarning ==
    /\ \A a \in GeneratedRefs, o \in GeneratedRefs :
          (a # o /\ (~Present(generatedItems, a) \/ ~Present(generatedItems, o)))
              => ENABLED (/\ HandleGeneratedDragEnd(a, TRUE, o)
                          /\ generatedItems' = generatedItems
                          /\ WarningLogged)
    /\ \A id \in GeneratedRefs :
          ~Present(generatedItems, id)
              => ENABLED (/\ HandleGeneratedDelete(id)
                          /\ generatedItems' = generatedItems
                          /\ WarningLogged)

\* C14: a reorder request whose active and over reference are the same is a
\* no-op: handleDragEnd returns null, the handler runs to its end, and it
\* changes neither the collection nor the log.
C14_SameRefIsNoOp ==
    \A a \in Positions :
        /\ DragEndResult(wrongItems, FALSE, a, TRUE, a) = Null
        /\ ENABLED HandleWrongDragEnd(a, TRUE, a)
        /\ ~ENABLED (/\ HandleWrongDragEnd(a, TRUE, a)
                     /\ wrongItems' # wrongItems \/ history' # history)

\* a collection that has been changed, with a log that is not empty
C14_Witness ==
    /\ Len(wrongItems) = 3
    /\ Len(history) = 2
    /\ history[2].message.tmpl = "MOVE_ITEM"
    /\ DragEndResult(wrongItems, FALSE, 1, TRUE, 1) = Null

\* C15: a reorder request without an over target fails loudly: the handler
\* does not run to its end, and the outcome is not the null result that the
\* no-op and the aborted request return.
C15_NullRefFailsLoudly ==
    \A a \in Positions :
        /\ DragEndResult(wrongItems, FALSE, a, FALSE, 0) # Null
        /\ ~ENABLED HandleWrongDragEnd(a, FALSE, 0)

\* C16: an insert whose item carries an id that an item of the collection
\* already carries is rejected: no run of handleAddGeneratedItem that draws
\* such an id changes the collection.
C16_DuplicateInsertRejected ==
    ~ENABLED (/\ HandleAddGeneratedItem
              /\ Present(generatedItems, generatedItems'[Len(generatedItems')].id)
              /\ generatedItems' # generatedItems)

\* the entry a handler appended in this step reports a deletion
DeletionLogged ==
    /\ Len(history') = Len(history) + 1
    /\ history'[Len(history')].message.tmpl = "DELETE_ITEM"

\* C17: a delete request to the index-mode collection that names a position
\* outside [0, length) leaves the collection as it was and is not reported as
\* a deletion.
C17_UnmatchedDeleteIsNotFound ==
    \A k \in Positions :
        OutOfRange(wrongItems, k)
            => ~ENABLED (/\ HandleWrongDelete(k)
                         /\ wrongItems' # wrongItems \/ DeletionLogged)

-----------------------------------------------------------------------------
(* The log and the requests                                                *)

\* C18: apart from the reset, a step that changes a collection appends exactly
\* one entry to the log, and a step that changes no collection appends none.
C18_OneEntryPerMutation ==
    [][\/ HandleReset
       \/ IF <<wrongItems, generatedItems, correctItems>>'
               # <<wrongItems, generatedItems, correctItems>>
          THEN /\ Len(history') = Len(history) + 1
               /\ SubSeq(history', 1, Len(history)) = history
          ELSE history' = history]_vars

\* C19: requests take effect one after another, none lost: when the delete of
\* an item, or an insert, and a reorder request are handled one right after
\* the other, the collection that results is the one the reorder gives on the
\* collection the delete, or the insert, leaves (ids all distinct).
C19_NoLostUpdate ==
    [][collisions' = 0 =>
        /\ \A id \in GeneratedRefs, a \in GeneratedRefs, o \in GeneratedRefs :
              HandleGeneratedDeleteThenDragEnd(id, a, TRUE, o)
                  => generatedItems' =
                         DragEndItems(DeleteById(generatedItems, id),
                                      TRUE, a, TRUE, o)
        /\ \A a \in GeneratedRefs, o \in GeneratedRefs :
              HandleAddGeneratedItemThenDragEnd(a, TRUE, o)
                  => generatedItems' =
                         DragEndItems(
                             AddItem(generatedItems,
                                     generatedItems'[Len(generatedItems')]),
                             TRUE, a, TRUE, o)]_vars

-----------------------------------------------------------------------------
(* Ids over the life of a collection                                       *)

\* the number of items that carry this id
CountId(items, id) == Cardinality({i \in 1..Len(items) : items[i].id = id})

\* C20: no id is issued twice: a step gives no item an id that was handed out
\* before the step (to an item still present or to one deleted since), in the
\* generated and in the correct collection, and the counter of the incremental
\* generator only grows.
C20_IdsNeverReissued ==
    [][/\ \A id \in GeneratedRefs :
            CountId(generatedItems', id) <= CountId(generatedItems, id)
       /\ \A n \in 1..idCounter :
            CountId(correctItems', IncrementalId(n))
                <= CountId(correctItems, IncrementalId(n))
       /\ idCounter' > idCounter]_vars

-----------------------------------------------------------------------------
(* The original App.jsx next to the refactored application                 *)

\* The text of a message of the refactored application (diacritics dropped).
MessageText(message) ==
    CASE message.tmpl = "DELETE_ITEM" ->
            "Smazana polozka \"" \o message.args[1] \o "\""
      [] message.tmpl = "MOVE_ITEM" ->
            "Presunuto z pozice " \o message.args[1]
                \o " na pozici " \o message.args[2]
      [] message.tmpl = "ADD_ITEM" ->
            "Pridana polozka \"" \o message.args[1] \o "\""
      [] message.tmpl = "MOVE_ID" ->
            "Presunuto polozku s ID " \o message.args[1]
                \o " na pozici " \o message.args[2]

\* What the history panel shows of an entry: its type as a class, its text,
\* and the class 'warning' when entry.warning is truthy.
VisibleEntry(entry) ==
    [type |-> entry.type, text |-> MessageText(entry.message),
     warning |-> entry.warning]

\* App.jsx handleWrongDragEnd, over not null: the items it leaves
OriginalWrongDragEndItems(items, activeId, overId) ==
    IF activeId # overId THEN ArrayMove(items, activeId, overId) ELSE items

\* App.jsx handleWrongDragEnd: the entry it logs, as the panel shows it (the
\* entry has no warning field)
OriginalWrongDragEndEntry(activeId, overId) ==
    [type    |-> WRONG,
     text    |-> "Presunuto z indexu " \o ToString(activeId)
                     \o " na index " \o ToString(overId),
     warning |-> FALSE]

\* App.jsx handleWrongDelete: the items it leaves
OriginalWrongDeleteItems(items, index) == FilterOutIndex(items, index)

\* App.jsx handleWrongDelete: the entry it logs, as the panel shows it
OriginalWrongDeleteEntry(items, index) ==
    [type    |-> WRONG,
     text    |-> "Smazana polozka \"" \o At(items, index)
                     \o "\" na indexu " \o ToString(index),
     warning |-> TRUE]

\* App.jsx handleGeneratedDragEnd / handleCorrectDragEnd, over not null: the
\* items they leave (findIndex's result goes to arrayMove untested)
OriginalIdentityDragEndItems(items, activeId, overId) ==
    IF activeId # overId
    THEN ArrayMove(items, FindIndexById(items, activeId),
                          FindIndexById(items, overId))
    ELSE items

\* C21: the refactored application behaves as App.jsx does: from a state the
\* two share, a reorder or a delete request to the index-mode collection
\* leaves the same items in both, and the same entry in the history panel.
C21_RefactoredMatchesOriginal ==
    /\ \A a \in Positions, o \in Positions :
          a # o =>
            ENABLED (/\ HandleWrongDragEnd(a, TRUE, o)
                     /\ wrongItems' = OriginalWrongDragEndItems(wrongItems, a, o)
                     /\ Len(history') = Len(history) + 1
                     /\ VisibleEntry(history'[Len(history')])
                          = OriginalWrongDragEndEntry(a, o))
    /\ \A k \in Positions :
          ENABLED (/\ HandleWrongDelete(k)
                   /\ wrongItems' = OriginalWrongDeleteItems(wrongItems, k)
                   /\ Len(history') = Len(history) + 1
                   /\ VisibleEntry(history'[Len(history')])
                        = OriginalWrongDeleteEntry(wrongItems, k))

-----------------------------------------------------------------------------
(* The operations of a collection                                          *)

\* the index-mode collection as handleWrongDragEnd leaves it for the request
\* {active: {id: i}, over: {id: j}}
AfterWrongDragEnd(i, j) == DragEndItems(wrongItems, FALSE, i, TRUE, j)

\* items2 is items with the element at position old taken out and put back at
\* position new: the element sits at new, the elements between the two
\* positions have moved one place toward old, the others are where they were
MovedTo(items, items2, old, new) ==
    /\ Len(items2) = Len(items)
    /\ At(items2, new) = At(items, old)
    /\ \A k \in 0..(Len(items) - 1) :
          /\ (k < Min(old, new) \/ k > Max(old, new))
                => At(items2, k) = At(items, k)
          /\ (old < k /\ k <= new) => At(items2, k - 1) = At(items, k)
          /\ (new <= k /\ k < old) => At(items2, k + 1) = At(items, k)

\* C22: a move between two different positions, both inside the collection,
\* takes the element out at the old position and puts it back at the new one:
\* it ends at the new position, the elements between the two positions shift
\* by one toward the old position, every other element stays where it was.
C22_MoveIsRemoveAndReinsert ==
    \A i \in Positions, j \in Positions :
        (i # j /\ ~OutOfRange(wrongItems, i) /\ ~OutOfRange(wrongItems, j))
            => MovedTo(wrongItems, AfterWrongDragEnd(i, j), i, j)

\* the last element of the seed has been moved to the front, past three others
C22_Witness ==
    /\ wrongItems = <<D, A, B, C>>
    /\ history = <<Entry(1, WRONG, "MOVE_ITEM", <<"3", "0">>, FALSE)>>

\* the step appends one item to the generated collection: the collection
\* before it is a prefix of the collection after it, which is one longer
Appended ==
    /\ Len(generatedItems') = Len(generatedItems) + 1
    /\ SubSeq(generatedItems', 1, Len(generatedItems)) = generatedItems

\* C23: an insert is accepted, and every accepted insert puts the new element
\* last: the collection before it is an unchanged prefix of the collection
\* after it, and the length grows by exactly one.
C23_InsertAppends ==
    /\ ENABLED HandleAddGeneratedItem
    /\ ~ENABLED (HandleAddGeneratedItem /\ ~Appended)

\* two inserts after the seed: the seed is the prefix, the new items are last
C23_Witness ==
    /\ Len(history) = 2
    /\ history[1].message.tmpl = "ADD_ITEM"
    /\ history[2].message.tmpl = "ADD_ITEM"
    /\ Values(generatedItems)
         = <<A, B, C, D, "Nova polozka 5", "Nova polozka 6">>

\* items2 is items without one of its elements, the others in their order
RemovedOne(items, items2) ==
    /\ Len(items2) = Len(items) - 1
    /\ \E i \in 1..Len(items) : items2 = Without(items, i)

\* C24: an accepted delete removes exactly one entity, in identity mode the
\* one whose id is the reference, in index mode the one at the position: the
\* others keep ids, values and order, and the length shrinks by exactly one.
C24_DeleteRemovesOne ==
    /\ \A id \in GeneratedRefs :
          Present(generatedItems, id)
              => ~ENABLED (/\ HandleGeneratedDelete(id)
                           /\ ~RemovedOne(generatedItems, generatedItems'))
    /\ \A k \in Positions :
          ~OutOfRange(wrongItems, k)
              => ~ENABLED (/\ HandleWrongDelete(k)
                           /\ wrongItems' # Without(wrongItems, k + 1))

\* the step logs one entry, and no collection but the one the entry names has
\* changed in it
OnlyLoggedCollectionChanges ==
    /\ Len(history') = Len(history) + 1
    /\ LET type == history'[Len(history')].type
       IN  /\ type # WRONG => wrongItems' = wrongItems
           /\ type # GENERATED => generatedItems' = generatedItems
           /\ type # CORRECT => correctItems' = correctItems

\* C25: the three collections share no state: a reorder, delete or insert
\* request to one of them leaves the other two as they were; only the reset
\* touches more than one collection (the one step that leaves the log empty).
C25_CollectionsIndependent ==
    [][history' # <<>> => OnlyLoggedCollectionChanges]_vars

\* each collection has taken one request of its own and differs from the
\* other two
C25_Witness ==
    /\ Len(history) = 3
    /\ {history[i].type : i \in 1..3} = {WRONG, GENERATED, CORRECT}
    /\ Len(wrongItems) = 3
    /\ Len(generatedItems) = 5
    /\ Values(correctItems) = <<B, A, C, D>>

\* C26: the history entry of an accepted move carries both raw references of
\* the request, the active one and the over one, in identity mode as in index
\* mode.
C26_MoveEntryCarriesBothRefs ==
    \A a \in GeneratedRefs, o \in GeneratedRefs :
        Accepted(generatedItems, a, o)
            => ENABLED (/\ HandleGeneratedDragEnd(a, TRUE, o)
                        /\ Len(history') = Len(history) + 1
                        /\ a \in Range(history'[Len(history')].message.args)
                        /\ o \in Range(history'[Len(history')].message.args))

\* C27: in index mode, under reorder and delete requests whose positions
\* range over 0..3, valid for the seed but possibly stale for the collection
\* as it is, every element of the collection is a value of the seed, no value
\* of the seed occurs twice, and the collection is never longer than the seed.
C27_IndexModeKeepsSeedValues ==
    /\ Len(wrongItems) <= Len(INITIAL_ITEMS)
    /\ \A i \in 1..Len(wrongItems) : wrongItems[i] \in Range(INITIAL_ITEMS)
    /\ \A i, j \in 1..Len(wrongItems) : i # j => wrongItems[i] # wrongItems[j]

\* C28: in the identity-mode handlers of the original App.jsx, a reorder
\* request whose active or over id is not in the collection leaves the
\* collection unchanged, as it does in the refactored useDragAndDrop.
C28_OriginalStaleIdLeavesItems ==
    \A a \in GeneratedRefs, o \in GeneratedRefs :
        (~Present(generatedItems, a) \/ ~Present(generatedItems, o))
            => /\ AfterDragEnd(a, o) = generatedItems
               /\ OriginalIdentityDragEndItems(generatedItems, a, o)
                    = generatedItems

\* the entry was recorded for a delete in the index-mode collection
IndexModeDelete(entry) ==
    entry.type = WRONG /\ entry.message.tmpl = "DELETE_ITEM"

\* C29: a history entry is flagged as a warning if and only if it was recorded
\* for an index-mode delete: every entry of an index-mode delete is flagged,
\* no entry of a move, an insert or an identity-mode delete is.
C29_WarningIffIndexDelete ==
    /\ \A i \in 1..Len(history) :
          history[i].warning <=> IndexModeDelete(history[i])

\* entries of an index-mode delete, an insert and an identity-mode delete
C29_Witness ==
    /\ Len(history) = 3
    /\ \E i \in 1..3 : IndexModeDelete(history[i]) /\ history[i].warning
    /\ \E i \in 1..3 : history[i].message.tmpl = "ADD_ITEM"
    /\ \E i \in 1..3 : /\ history[i].type = GENERATED
                       /\ history[i].message.tmpl = "DELETE_ITEM"

\* C30: a move can be taken back: for two different positions i and j inside
\* the collection, the move from i to j followed by the move from j to i
\* leaves the collection as it was.
C30_MoveIsReversible ==
    \A i \in Positions, j \in Positions :
        (i # j /\ ~OutOfRange(wrongItems, i) /\ ~OutOfRange(wrongItems, j))
            => DragEndItems(AfterWrongDragEnd(i, j), FALSE, j, TRUE, i)
                 = wrongItems

\* the first element was moved two places down and then moved back
C30_Witness ==
    /\ wrongItems = INITIAL_ITEMS
    /\ history = <<Entry(1, WRONG, "MOVE_ITEM", <<"0", "2">>, FALSE),
                   Entry(2, WRONG, "MOVE_ITEM", <<"2", "0">>, FALSE)>>

====
